---- MODULE Spec2Model ----
(***************************************************************************)
(* Model of the integer-close homomorphic hash of src/src/hashes.rs:       *)
(* HRPPHICT::new / hash / eval / eqcheck, the Hash algebra (Add, Sub,      *)
(* inverse) and the modular inverse helper (egcd, modinverse).             *)
(*                                                                         *)
(* Big integers are TLA+ integers.  Option<T> is a sequence: None is <<>>  *)
(* and Some(v) is <<v>>.  A panic (unwrap of None, expect, assert_eq,      *)
(* division by zero, arithmetic overflow) ends the program: pc becomes     *)
(* "panicked" and fault names the reason.                                  *)
(***************************************************************************)
EXTENDS Integers, Sequences, FiniteSets, TLC

VARIABLES pc, gen, fault, regs, lastop, ev, mi

vars == <<pc, gen, fault, regs, lastop, ev, mi>>

----------------------------------------------------------------------------
(* Bounds of the model *)

\* hash inputs of the algebra are drawn from -MaxX .. MaxX
MaxX == 3
\* plaintexts tracked through + and - stay within -MaxAbs .. MaxAbs
MaxAbs == 6
\* thresholds 0 .. MaxLowThreshold are all taken (d = t, s = 1 there)
MaxLowThreshold == 4
\* thresholds 100*k + j for k in 1 .. MaxHundreds (d = k there)
MaxHundreds == 3
\* the random draw of the base is 0 .. MaxBase before reduction
MaxBase == 2
\* eval inputs lie within MaxMargin of -t, 0 and t
MaxMargin == 2
\* modinverse is applied to a in 0 .. MaxInvA and m in 2 .. MaxInvM
MaxInvA == 24
MaxInvM == 12

(* Program constants *)

\* threshold <= 100 and threshold / 100 in HRPPHICT::new
Hundred == 100
\* u16::MAX, the width of t, d, s and r
U16Max == 65535
\* "The enumerating process is limited to no more than 200 rounds."
DocRoundLimit == 200

----------------------------------------------------------------------------
(* Option<T> *)

None == <<>>
Some(v) == <<v>>
Unwrap(o) == o[1]

Abs(x) == IF x < 0 THEN -x ELSE x

\* Rust's % and / on signed integers truncate towards zero
TruncRem(a, b) == IF a >= 0 THEN a % Abs(b) ELSE -((-a) % Abs(b))
TruncDiv(a, b) ==
    LET q == Abs(a) \div Abs(b)
    IN  IF (a < 0) = (b < 0) THEN q ELSE -q

----------------------------------------------------------------------------
(* fn egcd / fn modinverse *)

RECURSIVE egcd(_, _)
egcd(a, b) ==
    IF a = 0
    THEN <<b, 0, 1>>
    ELSE LET r == egcd(TruncRem(b, a), a)
         IN  <<r[1], r[3] - TruncDiv(b, a) * r[2], r[2]>>

\* the mutant: the result is not normalised into [0, m)
modinverse_NoNormalise(a, m) ==
    LET e == egcd(a, m)
    IN  IF e[1] # 1 THEN None ELSE Some(TruncRem(e[2], m))

modinverse(a, m) ==
    LET e  == egcd(a, m)
        im == m
    IN  IF e[1] # 1
        THEN None
        ELSE Some(TruncRem(TruncRem(e[2], im) + im, im))

\* BigUint::modpow: base^e mod m, by repeated squaring
RECURSIVE modpow(_, _, _)
modpow(b, e, m) ==
    IF e = 0
    THEN 1 % m
    ELSE LET h  == modpow(b, e \div 2, m)
             sq == (h * h) % m
         IN  IF e % 2 = 1 THEN (sq * b) % m ELSE sq

\* base^x with a negative exponent taken through modinverse, as hash and
\* eqcheck both compute it; None where the unwrap would panic
GroupPow(G, x) ==
    IF x >= 0
    THEN Some(modpow(G.a, x, G.n))
    ELSE modinverse(modpow(G.a, -x, G.n), G.n)

----------------------------------------------------------------------------
(* struct HRPPHICT and HRPPHICT::new *)

\* the small modulus d that new derives from the threshold
SmallModulus(threshold) ==
    IF threshold <= Hundred THEN threshold ELSE threshold \div Hundred

\* the struct literal new returns; threshold / d is evaluated only for
\* d # 0 (the action New models the panic of the division by zero)
NewGenerator(threshold, module, rnd) ==
    LET d == SmallModulus(threshold)
    IN  [t |-> threshold,
         d |-> d,
         s |-> threshold \div d,
         a |-> rnd % module,
         n |-> module]

NoGen == [t |-> 0, d |-> 0, s |-> 0, a |-> 0, n |-> 0]

\* thresholds handed to new: the small ones, those around the multiples
\* of 100 and the largest u16
Thresholds ==
    (0 .. MaxLowThreshold)
    \cup {Hundred * k + j : k \in 1 .. MaxHundreds, j \in {1, 2, Hundred - 1}}
    \cup {U16Max}

\* moduli the RSA key generation may deliver (products of two primes)
Moduli == {5 * 7, 23 * 29}

\* values gen_biguint may deliver before the reduction a % module
RandomDraws(module) == (0 .. MaxBase) \cup {module, module + MaxBase}

----------------------------------------------------------------------------
(* struct Hash, HRPPHICT::hash, impl Add / Sub for Hash, Hash::inverse *)

NoHash == [r |-> 0, g |-> 0, d |-> 0, n |-> 0]

\* the mutant: a negative remainder is not lifted into [0, d)
HashRemainder_NoLift(G, x) == TruncRem(x, G.d)

\* positive_new_r of hash
HashRemainder(G, x) ==
    LET new_r == TruncRem(x, G.d)
    IN  IF new_r < 0 THEN new_r + G.d ELSE new_r

\* hash: None where modinverse(..).unwrap() panics
hash(G, x) ==
    LET c == GroupPow(G, x)
    IN  IF c = None
        THEN None
        ELSE Some([r |-> HashRemainder(G, x),
                   g |-> Unwrap(c),
                   d |-> G.d,
                   n |-> G.n])

\* the two assert_eq! of add, and the u16 sum self.r + other.r
AddAssertFails(h1, h2) == h1.d # h2.d \/ h1.n # h2.n
AddOverflows(h1, h2) == h1.r + h2.r > U16Max

\* the mutant: the group elements are multiplied without the reduction
add_NoReduce(h1, h2) ==
    [r |-> (h1.r + h2.r) % h1.d,
     g |-> h1.g * h2.g,
     d |-> h1.d,
     n |-> h1.n]

add(h1, h2) ==
    [r |-> (h1.r + h2.r) % h1.d,
     g |-> (h1.g * h2.g) % h1.n,
     d |-> h1.d,
     n |-> h1.n]

\* the mutant: the remainder is not negated
inverse_KeepRemainder(h) ==
    LET i == modinverse(h.g, h.n)
    IN  IF i = None
        THEN None
        ELSE Some([r |-> h.r, g |-> Unwrap(i), d |-> h.d, n |-> h.n])

\* inverse: None where modinverse(..).unwrap() panics
inverse(h) ==
    LET i == modinverse(h.g, h.n)
    IN  IF i = None
        THEN None
        ELSE Some([r |-> h.d - h.r, g |-> Unwrap(i), d |-> h.d, n |-> h.n])

----------------------------------------------------------------------------
(* HRPPHICT::eval and HRPPHICT::eqcheck *)

\* the mutant: the first candidate is not brought back under top
EvalFirst_NoAdjust(G, h) == G.s * G.d + h.r

\* the candidate c the loop of eval starts from
EvalFirst(G, h) ==
    LET top == G.t
        c0  == G.s * G.d + h.r
    IN  IF c0 > top THEN c0 - G.d ELSE c0

\* the mutant: the loop runs one step further down
EvalBottom_OneMore(G) == -G.t - G.d

\* bottom of eval: the loop runs while c > bottom
EvalBottom(G) == -G.t

\* the mutant: the sign of the candidate is dropped
eqcheck_Unsigned(G, x, y) == Some(modpow(G.a, Abs(x), G.n) = y)

\* eqcheck: Some(h == *y), None where modinverse(..).unwrap() panics
eqcheck(G, x, y) ==
    LET h == GroupPow(G, x)
    IN  IF h = None THEN None ELSE Some(Unwrap(h) = y)

\* the integers whose hash the caller hands to eval: around -t, 0 and t
EvalInputs(G) ==
    {k + m : k \in {-G.t, 0, G.t}, m \in -MaxMargin .. MaxMargin}

\* Hash values of other Generators with the same d and n: those of base 0
\* (group element 0, no power of an invertible base) and of base 1 (group
\* element 1)
ForeignHashes(G) ==
    {[r |-> r, g |-> g, d |-> G.d, n |-> G.n] :
        r \in {q \in 0 .. MaxMargin : q < G.d}, g \in {0, 1}}

----------------------------------------------------------------------------
(* State *)

NoEval ==
    [h |-> NoHash, x |-> None, c |-> 0, rounds |-> 0,
     last |-> 0, prev |-> 0, ret |-> None]

NoOp == [op |-> "none", dst |-> 0, src |-> 0]

Init ==
    /\ pc = "start"
    /\ gen = NoGen
    /\ fault = "none"
    /\ regs = [i \in 1 .. 2 |-> None]
    /\ lastop = NoOp
    /\ ev = NoEval
    /\ mi = None

Panic(why) ==
    /\ pc' = "panicked"
    /\ fault' = why

\* HRPPHICT::new with a key generation that succeeds
New ==
    /\ pc = "start"
    /\ \E threshold \in Thresholds, module \in Moduli :
         \E rnd \in RandomDraws(module) :
            IF SmallModulus(threshold) = 0
            THEN /\ Panic("divide by zero")
                 /\ UNCHANGED gen
            ELSE /\ gen' = NewGenerator(threshold, module, rnd)
                 /\ pc' = "ready"
                 /\ UNCHANGED fault
    /\ UNCHANGED <<regs, lastop, ev, mi>>

\* HRPPHICT::new where RsaPrivateKey::new(..).expect(..) panics
NewKeyFail ==
    /\ pc = "start"
    /\ Panic("failed to generate a key")
    /\ UNCHANGED <<gen, regs, lastop, ev, mi>>

\* a call of hash whose result the caller keeps in slot i
HashStep ==
    /\ pc = "ready"
    /\ \E i \in 1 .. 2, x \in -MaxX .. MaxX :
         LET o == hash(gen, x)
         IN  IF o = None
             THEN /\ Panic("unwrap on None")
                  /\ UNCHANGED <<regs, lastop>>
             ELSE /\ regs' = [regs EXCEPT ![i] = Some([h |-> Unwrap(o), x |-> x])]
                  /\ lastop' = [op |-> "hash", dst |-> i, src |-> 0]
                  /\ UNCHANGED <<pc, fault>>
    /\ UNCHANGED <<gen, ev, mi>>

\* regs[i] + regs[j], kept in slot i
AddStep ==
    /\ pc = "ready"
    /\ \E i \in 1 .. 2, j \in 1 .. 2 :
         /\ regs[i] # None
         /\ regs[j] # None
         /\ LET hl == Unwrap(regs[i])
                hr == Unwrap(regs[j])
                x  == hl.x + hr.x
            IN  /\ Abs(x) <= MaxAbs
                /\ IF AddAssertFails(hl.h, hr.h)
                   THEN /\ Panic("assertion failed")
                        /\ UNCHANGED <<regs, lastop>>
                   ELSE IF AddOverflows(hl.h, hr.h)
                   THEN /\ Panic("add overflow")
                        /\ UNCHANGED <<regs, lastop>>
                   ELSE /\ regs' = [regs EXCEPT
                                      ![i] = Some([h |-> add(hl.h, hr.h), x |-> x])]
                        /\ lastop' = [op |-> "add", dst |-> i, src |-> j]
                        /\ UNCHANGED <<pc, fault>>
    /\ UNCHANGED <<gen, ev, mi>>

\* regs[i] - regs[j] = regs[i] + regs[j].inverse(), kept in slot i
SubStep ==
    /\ pc = "ready"
    /\ \E i \in 1 .. 2, j \in 1 .. 2 :
         /\ regs[i] # None
         /\ regs[j] # None
         /\ LET hl  == Unwrap(regs[i])
                hr  == Unwrap(regs[j])
                inv == inverse(hr.h)
                x   == hl.x - hr.x
            IN  /\ Abs(x) <= MaxAbs
                /\ IF inv = None
                   THEN /\ Panic("unwrap on None")
                        /\ UNCHANGED <<regs, lastop>>
                   ELSE IF AddAssertFails(hl.h, Unwrap(inv))
                   THEN /\ Panic("assertion failed")
                        /\ UNCHANGED <<regs, lastop>>
                   ELSE IF AddOverflows(hl.h, Unwrap(inv))
                   THEN /\ Panic("add overflow")
                        /\ UNCHANGED <<regs, lastop>>
                   ELSE /\ regs' = [regs EXCEPT
                                      ![i] = Some([h |-> add(hl.h, Unwrap(inv)),
                                                     x |-> x])]
                        /\ lastop' = [op |-> "sub", dst |-> i, src |-> j]
                        /\ UNCHANGED <<pc, fault>>
    /\ UNCHANGED <<gen, ev, mi>>

Next == New \/ NewKeyFail \/ HashStep \/ AddStep \/ SubStep

----------------------------------------------------------------------------
(* eval, one round of its loop per step *)

\* eval(&hash(x)): the locals of eval after lines 98-105
EvalStart ==
    /\ pc = "ready"
    /\ \E x \in EvalInputs(gen) :
         LET o == hash(gen, x)
         IN  IF o = None
             THEN /\ Panic("unwrap on None")
                  /\ UNCHANGED ev
             ELSE /\ ev' = [NoEval EXCEPT !.h = Unwrap(o),
                                          !.x = Some(x),
                                          !.c = EvalFirst(gen, Unwrap(o))]
                  /\ pc' = "eval"
                  /\ UNCHANGED fault
    /\ UNCHANGED <<gen, regs, lastop, mi>>

\* eval(&h) for a Hash h that this Generator did not produce
EvalForeign ==
    /\ pc = "ready"
    /\ \E h \in ForeignHashes(gen) :
         ev' = [NoEval EXCEPT !.h = h, !.c = EvalFirst(gen, h)]
    /\ pc' = "eval"
    /\ UNCHANGED <<gen, fault, regs, lastop, mi>>

\* one round of the while loop: eqcheck, then return or c -= step
EvalRound ==
    /\ pc = "eval"
    /\ ev.c > EvalBottom(gen)
    /\ LET e    == eqcheck(gen, ev.c, ev.h.g)
           seen == [ev EXCEPT !.rounds = ev.rounds + 1,
                              !.prev = ev.last,
                              !.last = ev.c]
       IN  IF e = None
           THEN /\ Panic("unwrap on None")
                /\ ev' = seen
           ELSE IF Unwrap(e)
           THEN /\ ev' = [seen EXCEPT
                            !.ret = Some([val |-> Some(ev.c), found |-> TRUE])]
                /\ pc' = "done"
                /\ UNCHANGED fault
           ELSE /\ ev' = [seen EXCEPT !.c = ev.c - gen.d]
                /\ UNCHANGED <<pc, fault>>
    /\ UNCHANGED <<gen, regs, lastop, mi>>

\* the loop exits without a match
EvalExit ==
    /\ pc = "eval"
    /\ ~(ev.c > EvalBottom(gen))
    /\ ev' = [ev EXCEPT !.ret = Some([val |-> None, found |-> FALSE])]
    /\ pc' = "done"
    /\ UNCHANGED <<gen, fault, regs, lastop, mi>>

NextEval ==
    New \/ NewKeyFail \/ EvalStart \/ EvalForeign \/ EvalRound \/ EvalExit

SpecEval == Init /\ [][NextEval]_vars

----------------------------------------------------------------------------
(* modinverse as a function of its two arguments *)

ModInverseCall ==
    /\ pc = "start"
    /\ \E a \in 0 .. MaxInvA, m \in 2 .. MaxInvM :
         mi' = Some([a |-> a, m |-> m, res |-> modinverse(a, m)])
    /\ UNCHANGED <<pc, gen, fault, regs, lastop, ev>>

NextInv == ModInverseCall

SpecInv == Init /\ [][NextInv]_vars

Spec == Init /\ [][Next]_vars

----------------------------------------------------------------------------
(* Properties *)

\* the base has an inverse modulo the big modulus
Invertible(G) == modinverse(G.a, G.n) # None

\* the group elements base^c of the integers c in [-t, t] are pairwise
\* distinct: for an invertible base, base^c1 = base^c2 exactly when
\* base^(c1 - c2) = 1, and the differences are 1 .. 2t
InRangeDistinct(G) == \A k \in 1 .. 2 * G.t : modpow(G.a, k, G.n) # 1

\* base^x differs from base^c for every c in [-t, t]
NoCollision(G, x) == \A c \in -G.t .. G.t : GroupPow(G, c) # GroupPow(G, x)

Returned(val, found) == Some([val |-> val, found |-> found])

\* C1: round trip within range.  With an invertible base and no collision
\* among the exponents -t .. t, eval(hash(x)) returns (Some(x), true) for
\* every x with |x| <= t, the endpoints x = t and x = -t included.
C1_RoundTripWithinRange ==
    (/\ pc = "done"
     /\ ev.x # None
     /\ Invertible(gen)
     /\ InRangeDistinct(gen)
     /\ Abs(Unwrap(ev.x)) <= gen.t)
    => ev.ret = Returned(ev.x, TRUE)

\* C2: additive homomorphism.  With an invertible base, the Hash that
\* hash(x) + hash(y) yields is hash(x + y), in all four components.
C2_AddHomomorphism ==
    (lastop.op = "add" /\ Invertible(gen))
    => /\ regs[lastop.dst] # None
       /\ Some(Unwrap(regs[lastop.dst]).h)
            = hash(gen, Unwrap(regs[lastop.dst]).x)

\* an addition of two hashes of opposite sign whose sum is negative, under
\* a small modulus that does not divide it
C2_Witness ==
    /\ lastop.op = "add"
    /\ lastop.src # lastop.dst
    /\ Invertible(gen)
    /\ gen.d > 1
    /\ regs[lastop.dst] # None
    /\ regs[lastop.src] # None
    /\ Unwrap(regs[lastop.dst]).x < 0
    /\ Unwrap(regs[lastop.src]).x > 0
    /\ Unwrap(regs[lastop.dst]).h.r # 0

\* C3: subtractive homomorphism.  With an invertible base, the Hash that
\* hash(x) - hash(y) = hash(x) + hash(y).inverse() yields is hash(x - y),
\* also when y mod d = 0 and inverse yields the remainder d.
C3_SubHomomorphism ==
    (lastop.op = "sub" /\ Invertible(gen))
    => /\ regs[lastop.dst] # None
       /\ Some(Unwrap(regs[lastop.dst]).h)
            = hash(gen, Unwrap(regs[lastop.dst]).x)

\* a subtraction of a hash(y) with y # 0 and y mod d = 0
C3_Witness ==
    /\ lastop.op = "sub"
    /\ lastop.src # lastop.dst
    /\ Invertible(gen)
    /\ gen.d > 1
    /\ regs[lastop.dst] # None
    /\ regs[lastop.src] # None
    /\ Unwrap(regs[lastop.src]).x # 0
    /\ Unwrap(regs[lastop.src]).h.r = 0
    /\ inverse(Unwrap(regs[lastop.src]).h) # None
    /\ Unwrap(inverse(Unwrap(regs[lastop.src]).h)).r = gen.d
    /\ Unwrap(regs[lastop.dst]).h.r # 0

\* C4: out-of-range rejection.  With an invertible base, for |x| > t with
\* base^x distinct from base^c for every c in [-t, t], eval(hash(x))
\* returns (None, false).
C4_OutOfRangeRejected ==
    (/\ pc = "done"
     /\ ev.x # None
     /\ Abs(Unwrap(ev.x)) > gen.t
     /\ Invertible(gen)
     /\ NoCollision(gen, Unwrap(ev.x)))
    => ev.ret = Returned(None, FALSE)

\* eval has run its whole loop over several rounds on such an x
C4_Witness ==
    /\ pc = "done"
    /\ ev.x # None
    /\ Abs(Unwrap(ev.x)) > gen.t
    /\ Invertible(gen)
    /\ NoCollision(gen, Unwrap(ev.x))
    /\ gen.d < gen.t
    /\ ev.rounds >= 2 * gen.s
    /\ ev.ret = Returned(None, FALSE)

Gcd(a, m) ==
    LET common == {k \in 1 .. m : a % k = 0 /\ m % k = 0}
    IN  CHOOSE g \in common : \A k \in common : k <= g

\* C6: modular inverse.  For m >= 2 and any unsigned a, modinverse(a, m)
\* is None exactly when gcd(a, m) # 1, and otherwise a y with 0 <= y < m
\* and (y * a) mod m = 1.
C6_ModInverseCorrect ==
    mi # None =>
      LET a   == Unwrap(mi).a
          m   == Unwrap(mi).m
          res == Unwrap(mi).res
      IN  /\ (res = None) <=> (Gcd(a, m) # 1)
          /\ res # None =>
               /\ 0 <= Unwrap(res)
               /\ Unwrap(res) < m
               /\ (Unwrap(res) * a) % m = 1

\* an inverse of an a >= m whose Bezout coefficient is negative
C6_Witness ==
    /\ mi # None
    /\ Unwrap(mi).a > Unwrap(mi).m
    /\ Unwrap(mi).res # None
    /\ egcd(Unwrap(mi).a, Unwrap(mi).m)[2] < 0
    /\ Unwrap(Unwrap(mi).res) > 1

\* C7: setup parameters.  For every threshold 0 .. 65535, unless the key
\* generation fails, new returns a Generator with d = t if t <= 100 else
\* t div 100, d >= 1, s = t div d and a < n.
C7_SetupTotal ==
    (pc # "start" /\ fault # "failed to generate a key")
    => /\ gen # NoGen
       /\ gen.d = (IF gen.t <= Hundred THEN gen.t ELSE gen.t \div Hundred)
       /\ gen.d >= 1
       /\ gen.s = gen.t \div gen.d
       /\ gen.a < gen.n

\* C8: remainder range.  Every Hash obtained from hash, + and - has its
\* remainder in [0, d) and carries the Generator's d and n, and the u16 sum
\* of two remainders in add never overflows.
C8_RemainderInRange ==
    /\ fault # "add overflow"
    /\ \A i \in 1 .. 2 :
         regs[i] # None =>
           /\ 0 <= Unwrap(regs[i]).h.r
           /\ Unwrap(regs[i]).h.r < gen.d
           /\ Unwrap(regs[i]).h.d = gen.d
           /\ Unwrap(regs[i]).h.n = gen.n

\* a Hash obtained by - from hashes of negative integers under the
\* largest small modulus, where the two remainders sum to more than d
C8_Witness ==
    /\ lastop.op = "sub"
    /\ lastop.src # lastop.dst
    /\ regs[lastop.dst] # None
    /\ regs[lastop.src] # None
    /\ gen.t = U16Max
    /\ Unwrap(regs[lastop.src]).x > 0
    /\ Unwrap(regs[lastop.dst]).x < 0
    /\ Unwrap(regs[lastop.dst]).h.r > Hundred

\* C9: enumeration limit.  The loop of eval runs no more than 200 rounds.
C9_AtMostTwoHundredRounds == ev.rounds <= DocRoundLimit

====
